---- MODULE Spec2Model ----
(***************************************************************************)
(* State-machine model of the Hoymiles Cloud integration:                  *)
(*   - HoymilesAPI (hoymiles_api.py): token, expiry, authenticate, the     *)
(*     three listing operations and the three telemetry fetches;           *)
(*   - async_setup_entry / async_update_data (__init__.py): setup, the     *)
(*     refresh cycle and the DataUpdateCoordinator that publishes its      *)
(*     result.                                                             *)
(* Every network call is a suspension point of the one cooperative task.   *)
(* An action runs the code from one suspension point (or call boundary) to *)
(* the next.  The upstream service, the clock and the cycle timeout are    *)
(* the environment.                                                        *)
(***************************************************************************)
EXTENDS Integers, Sequences, FiniteSets, TLC

\* ---------------------------------------------------------------- bounds
\* refresh cycles started (the first refresh of setup included)
MaxCycles == 2
\* clock advances
MaxTicks == 2
\* upstream answers that are not the nominal success answer, and timeouts
MaxFaults == 2
\* the same three bounds for the specification of the 2-site fleet
FleetCycles == 1
FleetTicks == 2
FleetFaults == 1
\* the same for the runs under fairness
LiveCycles == 2
LiveTicks == 2
LiveFaults == 1
\* and for the runs in which a cycle fails and a later one succeeds
RecoveryCycles == 3
RecoveryTicks == 2
RecoveryFaults == 1

\* ------------------------------------------------------ program constants
\* self._token_valid_time
token_valid_time == 7200
\* async_timeout.timeout(30)
CycleTimeout == 30

None == "None"
\* opaque bearer strings the upstream issues
Tokens == {"tokA", "tokB"}
\* the clock advances by one second or by one second less than the validity window
TickSizes == {1, token_valid_time - 1}

VARIABLES
    token,               \* HoymilesAPI._token
    token_expires_at,    \* HoymilesAPI._token_expires_at
    now,                 \* time.time()
    pc,                  \* position of async_setup_entry / the coordinator
    stations,            \* async_setup_entry: stations (its keys, in order)
    dtus,                \* async_setup_entry: dtus, station id -> device ids
    microinverters,      \* async_setup_entry: microinverters
    cur,                 \* loop position: station index (setup), visit index (cycle)
    data,                \* async_update_data: the local mapping being built
    coordData,           \* DataUpdateCoordinator.data (the published snapshot)
    last_update_success, \* DataUpdateCoordinator.last_update_success
    call,                \* the HoymilesAPI operation in flight
    auth,                \* authenticate(): "none", "wait", or what it returned
    ret,                 \* what the finished operation returned or raised
    account,             \* the fleet the upstream holds for this account
    cycle,               \* refresh cycles started
    ticks,               \* clock advances so far
    faults,              \* non-nominal upstream answers so far
    bound,               \* the bounds of this run on cycle, ticks and faults
    reqLog,              \* history: requests sent since setup / the cycle started
    raised,              \* history: an error was raised inside the current cycle
    reauth,              \* history: result of the cycle's own authenticate() call
    resp,                \* history: the response being processed
    lastAuth,            \* history: time and token of the last successful authenticate()
    username,            \* HoymilesAPI._username
    password,            \* HoymilesAPI._password
    registered,          \* hass.data[DOMAIN] holds the entry (setup returned True)
    timed_out,           \* history: the timeout of the current cycle has fired
    value,               \* sensor.py: the raw value handed to a coercion
    as_int,              \* sensor.py: what safe_int_convert(value) gave
    as_float,            \* sensor.py: what safe_float_convert(value) gave
    timestamp_str,       \* sensor.py: the raw timestamp handed to parse_timestamp
    time_zone,           \* dt_util.DEFAULT_TIME_ZONE as hours east of UTC
    as_utc               \* sensor.py: what parse_timestamp(timestamp_str) gave

vars == <<token, token_expires_at, now, pc, stations, dtus, microinverters, cur,
          data, coordData, last_update_success, call, auth, ret, account, cycle,
          ticks, faults, bound, reqLog, raised, reauth, resp, lastAuth,
          username, password, registered, timed_out,
          value, as_int, as_float, timestamp_str, time_zone, as_utc>>

cfgVars == <<username, password>>
sensorVars == <<value, as_int, as_float, timestamp_str, time_zone, as_utc>>

apiVars == <<token, token_expires_at>>
topoVars == <<stations, dtus, microinverters>>
coordVars == <<coordData, last_update_success>>
envVars == <<now, account, ticks, bound>>

\* ------------------------------------------------------------- values
EmptyMap == [x \in {} |-> 0]
\* the empty payload / dict {}
EmptyPayload == EmptyMap

NoCall == [op |-> "none", sid |-> 0, id |-> 0, at |-> "none", acc |-> EmptyPayload,
           expired |-> FALSE, guarded |-> FALSE, hdr |-> None]
NoRet == [kind |-> "none", val |-> 0]
NoResp == [kind |-> "none", status |-> "", message |-> "", shape |-> "", body |-> 0]
NoAuthYet == [at |-> -1, tok |-> None]
\* coordinator.data is None until the first successful refresh
NoSnapshot == [none |-> TRUE, map |-> EmptyMap]

Value(v) == [kind |-> "value", val |-> v]
Raise == [kind |-> "raise", val |-> 0]

ListingOps == {"get_stations", "get_dtus", "get_microinverters"}
FetchOps == {"get_real_time_data_station", "get_real_time_data_dtu",
             "get_real_time_data_microinverter"}

\* ------------------------------------------------------- credentials
\* entry.data[CONF_USERNAME], entry.data[CONF_PASSWORD]
Login(u, p) == [user_name |-> u, password |-> p]

\* ---------------------------------------------------- upstream accounts
Acct(s, d, m) == [sites |-> s, dtus |-> d, micros |-> m]

\* small accounts: one site with a concentrator and two micro-devices, or two
\* sites of which only the second has a device
SmallAccounts ==
    { Acct(<<1>>, <<<<11>>>>, <<<<101, 102>>>>),
      Acct(<<1, 2>>, <<<<>>, <<21>>>>, <<<<>>, <<>>>>) }

\* 2 sites, each with 1 concentrator and 2 micro-devices
FleetAccount == Acct(<<1, 2>>, <<<<11>>, <<21>>>>, <<<<101, 102>>, <<201, 202>>>>)

\* one site with two concentrators
TwoDtuAccount == Acct(<<1>>, <<<<11, 12>>>>, <<<<>>>>)

\* one concentrator entry of the listing endpoint
DtuEntry(id) == [id |-> id, model_no |-> 1000 + id, warn_data |-> 2000 + id]
\* one micro-device entry of the listing endpoint
MicroEntry(id) == [id |-> id, init_hard_no |-> 3000 + id]
StationEntry(id) == [id |-> id, name |-> 4000 + id]

\* the telemetry the upstream holds for an entity during refresh cycle g
StationPayload(sid, g) == [kind |-> "station", id |-> sid, gen |-> g]
MicroPayload(id, g) == [kind |-> "micro", id |-> id, gen |-> g]
\* the detail endpoint of a concentrator: it may carry a stale model_no of its own
DtuDetail(id, g) == [kind |-> "dtu", id |-> id, gen |-> g, model_no |-> 0]

\* ------------------------------------------------- upstream responses
Statuses == {"0", "1"}
Messages == {"success", "error"}

\* a parsed JSON envelope {status, message, data}; shape says what data is:
\* "full" (data carries body), "empty" (data is {}), "null" (data is null)
Json(st, msg, shape, body) ==
    [kind |-> "json", status |-> st, message |-> msg, shape |-> shape, body |-> body]
\* the connection fails / the body is not JSON
Transport(body) == [kind |-> "transport", status |-> "", message |-> "", shape |-> "", body |-> body]
NonJson(body) == [kind |-> "non_json", status |-> "", message |-> "", shape |-> "", body |-> body]

Envelopes(shapes, bodies, blank) ==
    { Json(st, msg, "full", b) : st \in Statuses, msg \in Messages, b \in bodies }
    \cup { Json(st, msg, sh, blank) : st \in Statuses, msg \in Messages,
                                      sh \in shapes \ {"full"} }
    \cup { Transport(blank), NonJson(blank) }

\* the answer the upstream gives when nothing goes wrong
Nominal(r) ==
    r.kind = "json" /\ r.status = "0" /\ r.message = "success" /\ r.shape = "full"

\* every token the upstream issues is a fresh one
IssuedToken == IF lastAuth.tok = "tokA" THEN "tokB" ELSE "tokA"

AuthResponses == Envelopes({"full", "empty", "null"}, {IssuedToken}, None)

Entries(op, ids) ==
    [i \in 1..Len(ids) |->
        CASE op = "get_stations" -> StationEntry(ids[i])
          [] op = "get_microinverters" -> MicroEntry(ids[i])
          [] OTHER -> DtuEntry(ids[i])]

AccountList(op, sid) ==
    CASE op = "get_stations" -> account.sites
      [] op = "get_microinverters" -> account.micros[sid]
      [] OTHER -> account.dtus[sid]

\* a listing answers with the account's list; a faulty upstream answers with an
\* empty list, no list, null data, a non-success envelope or no JSON at all
ListResponses(op, sid) ==
    Envelopes({"full", "empty", "null"}, {Entries(op, AccountList(op, sid)), <<>>}, <<>>)

FetchBody(op, id) ==
    CASE op = "get_real_time_data_station" -> StationPayload(id, cycle)
      [] op = "get_real_time_data_microinverter" -> MicroPayload(id, cycle)
      [] OTHER -> DtuDetail(id, cycle)

FetchResponses(op, id) == Envelopes({"full", "empty"}, {FetchBody(op, id)}, EmptyPayload)

\* the answers the upstream may give to the data request of call c
Responses(c) ==
    IF c.at # "wait" THEN {}
    ELSE IF c.op \in ListingOps THEN ListResponses(c.op, c.sid)
    ELSE FetchResponses(c.op, c.id)

\* the ids of a list without one of them
Without(ids, id) == SelectSeq(ids, LAMBDA x : x # id)

\* the answers to the listing request of get_real_time_data_dtu: those of the
\* listing, or a listing that no longer has the device itself
DtuListResponses(c) ==
    IF c.at # "wait_list" THEN {}
    ELSE ListResponses("get_dtus", c.sid)
         \cup {Json("0", "success", "full",
                    Entries("get_dtus", Without(AccountList("get_dtus", c.sid), c.id)))}

\* the listing a call in flight is waiting for, "" when it waits for a payload
ListingOf(c) ==
    IF c.at = "wait_list" THEN "get_dtus"
    ELSE IF c.op \in ListingOps THEN c.op ELSE ""

\* an answer that is not the nominal one (an empty list is nominal only when the
\* account's list is empty): it counts against MaxFaults
IsFault(r, c) ==
    \/ ~Nominal(r)
    \/ /\ ListingOf(c) # ""
       /\ r.body # Entries(ListingOf(c), AccountList(ListingOf(c), c.sid))

\* ------------------------------------------------------ HoymilesAPI
\* a variant of IsSuccess that looks at the status only
IsSuccess_status_only(r) == r.status = "0"

\* resp.get("status") == "0" and resp.get("message") == "success"
IsSuccess(r) == r.status = "0" /\ r.message = "success"

\* a variant of is_token_expired that compares with > instead of >=
is_token_expired_strict == now > token_expires_at

\* is_token_expired()
is_token_expired == now >= token_expires_at

\* a variant of authenticate_result that logs an error and returns False instead of
\* re-raising it
authenticate_result_swallows(r) ==
    IF r.kind # "json" THEN "false"
    ELSE IF r.status = "0" /\ r.message = "success"
         THEN (IF r.shape = "null" THEN "false" ELSE "true")
         ELSE "false"

\* authenticate(): what it returns for a response, "raise" when it raises
authenticate_result(r) ==
    IF r.kind # "json" THEN "raise"
    ELSE IF IsSuccess(r)
         THEN (IF r.shape = "null" THEN "raise" ELSE "true")
         ELSE "false"

\* authenticate(): resp.get("data", {}).get("token")
response_token(r) == IF r.shape = "full" THEN r.body ELSE None

\* a variant of token_after that drops the stored token when authentication fails
token_after_clears(r) ==
    IF authenticate_result(r) = "true" THEN response_token(r) ELSE None

\* authenticate(): self._token after the response
token_after(r) ==
    IF authenticate_result(r) = "true" THEN response_token(r) ELSE token

\* authenticate(): self._token_expires_at after the response
expires_after(r) ==
    IF authenticate_result(r) = "true" THEN now + token_valid_time ELSE token_expires_at

\* a variant of md5_hexdigest that leaves the password as it is
md5_cleartext(p) == p

\* hashlib.md5(self._password.encode()).hexdigest(), for the passwords of the model
md5_hexdigest(p) ==
    CASE p = "secret" -> "5ebe2294ecd0e0f08eab7690d2a6ee69"
      [] p = "hunter2" -> "2ab96390c7dbe3439de74d0c9b0b1767"

\* the value of a header as a prefix followed by a token
HeaderValue(prefix, tok) == [prefix |-> prefix, token |-> tok]

\* "Authorization": self._token
authorization_value(tok) == HeaderValue("", tok)

\* authenticate(): data = {"user_name": ..., "password": md5_password}
auth_body == [user_name |-> username, password |-> md5_hexdigest(password)]

\* the body of a data request: data = {"sid": ..., ...}
data_body(c, what) ==
    CASE what = "get_stations" -> [page_size |-> 10, page_num |-> 1]
      [] what \in {"get_dtus", "get_microinverters", "dtu_list"} ->
             [sid |-> c.sid, page_size |-> 1000, page_num |-> 1, show_warn |-> 0]
      [] what = "get_real_time_data_station" -> [sid |-> c.sid]
      [] OTHER -> [id |-> c.id, sid |-> c.sid]

\* a request as the history records it: the authentication request has no
\* Authorization header, a data request has the one built from tok
AuthReq == [req |-> "auth", id |-> 0, headers |-> EmptyMap, json |-> auth_body]
DataReq(c, what, tok) ==
    [req |-> what, id |-> IF what = "dtu_list" THEN c.sid ELSE c.id,
     headers |-> [Authorization |-> authorization_value(tok)],
     json |-> data_body(c, what)]

\* headers = {..., "Authorization": self._token}: built once, before the request
Posted(c, at) == [c EXCEPT !.at = at, !.hdr = token]

\* authenticate(): hash the password, build the body, post it and suspend
authenticate_send(log) ==
    /\ auth' = "wait"
    /\ reqLog' = Append(log, AuthReq)

\* authenticate(): the response arrives
AuthenticateResponse(r) ==
    /\ auth = "wait"
    /\ ~Nominal(r) => faults < bound.faults
    /\ faults' = IF Nominal(r) THEN faults ELSE faults + 1
    /\ auth' = authenticate_result(r)
    /\ token' = token_after(r)
    /\ token_expires_at' = expires_after(r)
    /\ lastAuth' = IF authenticate_result(r) = "true"
                   THEN [at |-> now, tok |-> response_token(r)] ELSE lastAuth
    /\ raised' = (raised \/ authenticate_result(r) = "raise")
    /\ resp' = r
    /\ UNCHANGED <<sensorVars, cfgVars, registered, timed_out,
                   envVars, pc, topoVars, cur, data, coordVars, call, ret, cycle,
                   reqLog, reauth>>

\* a caller invokes an API operation
Invoke(op, sid, id) ==
    call' = [op |-> op, sid |-> sid, id |-> id, at |-> "entry", acc |-> EmptyPayload,
             expired |-> is_token_expired, guarded |-> FALSE, hdr |-> None]

\* the guard of every listing and fetch operation: if not self._token
guard_needs_auth == token = None

\* entry of an operation: the guard, then the data request is posted
ApiEntry ==
    /\ call.at = "entry"
    /\ IF guard_needs_auth
       THEN /\ authenticate_send(reqLog)
            /\ call' = [call EXCEPT !.at = "guard_auth", !.guarded = TRUE]
       ELSE /\ reqLog' = Append(reqLog, DataReq(call, call.op, token))
            /\ call' = Posted(call, "wait")
            /\ auth' = auth
    /\ UNCHANGED <<sensorVars, cfgVars, registered, timed_out,
                   apiVars, envVars, pc, topoVars, cur, data, coordVars, ret, cycle,
                   faults, raised, reauth, resp, lastAuth>>

\* the guard's authenticate() has returned: its result is not looked at, an error
\* it raised propagates out of the operation
ApiGuardDone ==
    /\ call.at = "guard_auth"
    /\ auth \in {"true", "false", "raise"}
    /\ auth' = "none"
    /\ resp' = NoResp
    /\ IF auth = "raise"
       THEN /\ call' = [call EXCEPT !.at = "done"]
            /\ ret' = Raise
            /\ reqLog' = reqLog
       ELSE /\ reqLog' = Append(reqLog, DataReq(call, call.op, token))
            /\ call' = Posted(call, "wait")
            /\ ret' = ret
    /\ UNCHANGED <<sensorVars, cfgVars, registered, timed_out,
                   apiVars, envVars, pc, topoVars, cur, data, coordVars, cycle,
                   faults, raised, reauth, lastAuth>>

\* a variant of listing_result that raises an error for a rejected listing
listing_result_rejecting(r) ==
    IF r.kind # "json" THEN Raise
    ELSE IF IsSuccess(r)
         THEN (IF r.shape = "null" THEN Raise
               ELSE IF r.shape = "full"
                    THEN Value([i \in 1..Len(r.body) |-> r.body[i].id])
                    ELSE Value(<<>>))
         ELSE Raise

\* get_stations / get_dtus / get_microinverters: the ids of data.list, {} or [] on
\* a non-success envelope, an error on a transport or parsing failure
listing_result(r) ==
    IF r.kind # "json" THEN Raise
    ELSE IF IsSuccess(r)
         THEN (IF r.shape = "null" THEN Raise
               ELSE IF r.shape = "full"
                    THEN Value([i \in 1..Len(r.body) |-> r.body[i].id])
                    ELSE Value(<<>>))
         ELSE Value(<<>>)

\* a variant of fetch_result that raises an error for a rejected request
fetch_result_rejecting(r) ==
    IF r.kind # "json" THEN Raise
    ELSE IF IsSuccess(r)
         THEN Value(IF r.shape = "full" THEN r.body ELSE EmptyPayload)
         ELSE Raise

\* get_real_time_data_station / get_real_time_data_microinverter
fetch_result(r) ==
    IF r.kind # "json" THEN Raise
    ELSE IF IsSuccess(r)
         THEN Value(IF r.shape = "full" THEN r.body ELSE EmptyPayload)
         ELSE Value(EmptyPayload)

\* dtu_data["warn_data"] = ...; dtu_data["model_no"] = ...
patch_dtu(d, e) ==
    ("warn_data" :> e.warn_data) @@ ("model_no" :> e.model_no) @@ d

\* a variant of merge_dtu without the test of the id: every entry of the listing
\* patches the payload
RECURSIVE merge_dtu_any(_, _, _, _)
merge_dtu_any(d, list, id, i) ==
    IF i > Len(list) THEN d
    ELSE merge_dtu_any(patch_dtu(d, list[i]), list, id, i + 1)

\* get_real_time_data_dtu: the scan of the listing for the device id
RECURSIVE merge_dtu(_, _, _, _)
merge_dtu(d, list, id, i) ==
    IF i > Len(list) THEN d
    ELSE merge_dtu(IF list[i].id = id THEN patch_dtu(d, list[i]) ELSE d, list, id, i + 1)

\* a variant of dtu_list_result that returns an empty payload when the listing is
\* rejected
dtu_list_result_drops(d, id, r) ==
    IF r.kind # "json" THEN Raise
    ELSE IF IsSuccess(r)
         THEN (IF r.shape = "null" THEN Raise
               ELSE Value(merge_dtu(d, IF r.shape = "full" THEN r.body ELSE <<>>, id, 1)))
         ELSE Value(EmptyPayload)

\* get_real_time_data_dtu: the listing response
dtu_list_result(d, id, r) ==
    IF r.kind # "json" THEN Raise
    ELSE IF IsSuccess(r)
         THEN (IF r.shape = "null" THEN Raise
               ELSE Value(merge_dtu(d, IF r.shape = "full" THEN r.body ELSE <<>>, id, 1)))
         ELSE Value(d)

\* a variant of dtu_detail_ok without the `return dtu_data` of the else branch: the
\* listing is requested after any well-formed detail response
dtu_detail_falls_through(r) == r.kind = "json"

\* get_real_time_data_dtu: the detail response lets the operation go on to the
\* listing request
dtu_detail_ok(r) == r.kind = "json" /\ IsSuccess(r)

\* the response to the data request of an operation arrives
ApiResponse(r) ==
    /\ call.at = "wait"
    /\ IsFault(r, call) => faults < bound.faults
    /\ faults' = IF IsFault(r, call) THEN faults + 1 ELSE faults
    /\ IF call.op = "get_real_time_data_dtu" /\ dtu_detail_ok(r)
       THEN \* the detail payload is kept and the listing request is posted
            /\ call' = [call EXCEPT !.at = "wait_list",
                                    !.acc = IF r.shape = "full" THEN r.body ELSE EmptyPayload]
            /\ reqLog' = Append(reqLog, DataReq(call, "dtu_list", call.hdr))
            /\ UNCHANGED <<ret, raised>>
       ELSE LET res == IF call.op \in ListingOps THEN listing_result(r)
                       ELSE fetch_result(r)
            IN /\ call' = [call EXCEPT !.at = "done"]
               /\ ret' = res
               /\ raised' = (raised \/ res.kind = "raise")
               /\ reqLog' = reqLog
    /\ resp' = r
    /\ UNCHANGED <<sensorVars, cfgVars, registered, timed_out,
                   apiVars, envVars, pc, topoVars, cur, data, coordVars, auth, cycle,
                   reauth, lastAuth>>

\* a variant of dtus_in_cycle that takes the listing of the concentrator fetch as
\* the new list of concentrators of the site
dtus_rediscovered(r) ==
    IF r.kind = "json" /\ IsSuccess(r) /\ r.shape = "full"
    THEN (call.sid :> [i \in 1..Len(r.body) |-> r.body[i].id]) @@ dtus
    ELSE dtus

\* the dtus map of setup while a cycle handles the listing of a concentrator
\* fetch: dtus_data_list is only scanned
dtus_in_cycle(r) == dtus

\* get_real_time_data_dtu: the response to the listing request arrives
DtuListResponse(r) ==
    /\ call.at = "wait_list"
    /\ IsFault(r, call) => faults < bound.faults
    /\ faults' = IF IsFault(r, call) THEN faults + 1 ELSE faults
    /\ dtus' = dtus_in_cycle(r)
    /\ LET res == dtu_list_result(call.acc, call.id, r)
       IN /\ call' = [call EXCEPT !.at = "done"]
          /\ ret' = res
          /\ raised' = (raised \/ res.kind = "raise")
    /\ resp' = r
    /\ UNCHANGED <<sensorVars, cfgVars, registered, timed_out,
                   apiVars, envVars, pc, stations, microinverters, cur, data, coordVars, auth, cycle,
                   reqLog, reauth, lastAuth>>

\* ------------------------------------------------ async_setup_entry
\* a variant of SetupFails that logs the error and goes on to the first refresh
SetupFails_goes_on ==
    /\ pc' = "first_refresh"
    /\ call' = NoCall
    /\ ret' = NoRet

\* setup returns False (or raises ConfigEntryNotReady): nothing is registered
SetupFails ==
    /\ pc' = "setup_failed"
    /\ call' = NoCall
    /\ ret' = NoRet

\* async_setup_entry up to its await of api.authenticate()
SetupStart ==
    /\ pc = "init"
    /\ authenticate_send(reqLog)
    /\ pc' = "setup_auth"
    /\ UNCHANGED <<sensorVars, cfgVars, registered, timed_out,
                   apiVars, envVars, topoVars, cur, data, coordVars, call, ret, cycle,
                   faults, raised, reauth, resp, lastAuth>>

\* "Verify authentication": False or an exception ends setup
SetupAuthDone ==
    /\ pc = "setup_auth"
    /\ auth \in {"true", "false", "raise"}
    /\ auth' = "none"
    /\ resp' = NoResp
    /\ IF auth = "true"
       THEN /\ pc' = "setup_stations"
            /\ Invoke("get_stations", 0, 0)
            /\ ret' = NoRet
       ELSE SetupFails
    /\ UNCHANGED <<sensorVars, cfgVars, registered, timed_out,
                   apiVars, envVars, topoVars, cur, data, coordVars, cycle, faults,
                   reqLog, raised, reauth, lastAuth>>

\* "Fetch initial station data": no station or an exception ends setup
SetupStationsDone ==
    /\ pc = "setup_stations"
    /\ call.at = "done"
    /\ resp' = NoResp
    /\ IF ret.kind = "raise" \/ Len(ret.val) = 0
       THEN /\ SetupFails
            /\ UNCHANGED <<stations, cur>>
       ELSE /\ stations' = ret.val
            /\ cur' = 1
            /\ pc' = "setup_dtus"
            /\ Invoke("get_dtus", ret.val[1], 0)
            /\ ret' = NoRet
    /\ UNCHANGED <<sensorVars, cfgVars, registered, timed_out,
                   apiVars, envVars, dtus, microinverters, data, coordVars, auth, cycle,
                   faults, reqLog, raised, reauth, lastAuth>>

\* a variant of stored that keeps an entry only for a station that has devices
stored_nonempty(m, sid, list) == IF Len(list) = 0 THEN m ELSE (sid :> list) @@ m

\* m[station_id] = the list an operation returned, whatever it holds
stored(m, sid, list) == (sid :> list) @@ m

\* dtus[station_id] = await api.get_dtus(station_id)
SetupDtusDone ==
    /\ pc = "setup_dtus"
    /\ call.at = "done"
    /\ resp' = NoResp
    /\ IF ret.kind = "raise"
       THEN /\ SetupFails
            /\ dtus' = dtus
       ELSE /\ dtus' = stored(dtus, stations[cur], ret.val)
            /\ pc' = "setup_micros"
            /\ Invoke("get_microinverters", stations[cur], 0)
            /\ ret' = NoRet
    /\ UNCHANGED <<sensorVars, cfgVars, registered, timed_out,
                   apiVars, envVars, stations, microinverters, cur, data, coordVars,
                   auth, cycle, faults, reqLog, raised, reauth, lastAuth>>

\* microinverters[station_id] = await api.get_microinverters(station_id), then the
\* next station, or the coordinator is built and its first refresh is awaited
SetupMicrosDone ==
    /\ pc = "setup_micros"
    /\ call.at = "done"
    /\ resp' = NoResp
    /\ IF ret.kind = "raise"
       THEN /\ SetupFails
            /\ UNCHANGED <<microinverters, cur>>
       ELSE /\ microinverters' = stored(microinverters, stations[cur], ret.val)
            /\ ret' = NoRet
            /\ IF cur < Len(stations)
               THEN /\ cur' = cur + 1
                    /\ pc' = "setup_dtus"
                    /\ Invoke("get_dtus", stations[cur + 1], 0)
               ELSE /\ cur' = 0
                    /\ pc' = "first_refresh"
                    /\ call' = NoCall
    /\ UNCHANGED <<sensorVars, cfgVars, registered, timed_out,
                   apiVars, envVars, stations, dtus, data, coordVars, auth, cycle,
                   faults, reqLog, raised, reauth, lastAuth>>

\* ------------------------------------------------ async_update_data
Visit(op, sid, id) == [op |-> op, sid |-> sid, id |-> id]

\* the dtus of all stations from the k-th on
RECURSIVE DtusFrom(_)
DtusFrom(k) ==
    IF k > Len(stations) THEN <<>> ELSE dtus[stations[k]] \o DtusFrom(k + 1)

\* a variant of VisitsOf without the station_id == dtu_station_id test: the dtus of
\* every station are fetched under each station
VisitsOf_unfiltered(sid) ==
    <<Visit("get_real_time_data_station", sid, sid)>>
    \o [i \in 1..Len(DtusFrom(1)) |-> Visit("get_real_time_data_dtu", sid, DtusFrom(1)[i])]
    \o [i \in 1..Len(microinverters[sid]) |->
            Visit("get_real_time_data_microinverter", sid, microinverters[sid][i])]

\* a variant of VisitsOf with the two inner loops exchanged: the microinverters
\* of a station are fetched before its dtus
VisitsOf_micros_first(sid) ==
    <<Visit("get_real_time_data_station", sid, sid)>>
    \o [i \in 1..Len(microinverters[sid]) |->
            Visit("get_real_time_data_microinverter", sid, microinverters[sid][i])]
    \o [i \in 1..Len(dtus[sid]) |-> Visit("get_real_time_data_dtu", sid, dtus[sid][i])]

\* the fetches of one station: the station, its dtus, its microinverters
VisitsOf(sid) ==
    <<Visit("get_real_time_data_station", sid, sid)>>
    \o [i \in 1..Len(dtus[sid]) |-> Visit("get_real_time_data_dtu", sid, dtus[sid][i])]
    \o [i \in 1..Len(microinverters[sid]) |->
            Visit("get_real_time_data_microinverter", sid, microinverters[sid][i])]

RECURSIVE VisitsFrom(_)
VisitsFrom(k) ==
    IF k > Len(stations) THEN <<>> ELSE VisitsOf(stations[k]) \o VisitsFrom(k + 1)

\* the order in which the loops of async_update_data fetch
VisitOrder == VisitsFrom(1)

\* a variant of CycleGoto that repeats a fetch which returned an empty payload
CycleGoto_again(k) ==
    IF k > 1 /\ ret.kind = "value" /\ DOMAIN ret.val = {}
    THEN /\ cur' = k - 1
         /\ pc' = "cycle_fetch"
         /\ Invoke(VisitOrder[k - 1].op, VisitOrder[k - 1].sid, VisitOrder[k - 1].id)
    ELSE IF k <= Len(VisitOrder)
    THEN /\ cur' = k
         /\ pc' = "cycle_fetch"
         /\ Invoke(VisitOrder[k].op, VisitOrder[k].sid, VisitOrder[k].id)
    ELSE /\ cur' = 0
         /\ pc' = "cycle_returned"
         /\ call' = NoCall

\* the loops reach their k-th fetch, or are over and data is returned
CycleGoto(k) ==
    IF k <= Len(VisitOrder)
    THEN /\ cur' = k
         /\ pc' = "cycle_fetch"
         /\ Invoke(VisitOrder[k].op, VisitOrder[k].sid, VisitOrder[k].id)
    ELSE /\ cur' = 0
         /\ pc' = "cycle_returned"
         /\ call' = NoCall

\* a variant of CycleRaises that returns the data collected so far
CycleRaises_returns ==
    /\ pc' = "cycle_returned"
    /\ call' = NoCall
    /\ cur' = 0

\* the except clause of async_update_data: raise UpdateFailed
CycleRaises ==
    /\ pc' = "cycle_raised"
    /\ call' = NoCall
    /\ cur' = 0

\* an error raised by a fetch leaves the loops: nothing more is fetched
fetch_raised ==
    /\ CycleRaises
    /\ UNCHANGED <<data, coordData>>

\* a variant of snapshot_in_cycle that writes each entry into the published mapping
snapshot_patched(d) == [none |-> FALSE, map |-> d @@ coordData.map]

\* the snapshot readers see while the cycle fills its local data
snapshot_in_cycle(d) == coordData

\* the scheduler (or the first refresh of setup) starts a cycle
CycleStart ==
    /\ pc \in {"first_refresh", "idle"}
    /\ cycle < bound.cycles
    /\ cycle' = cycle + 1
    /\ raised' = FALSE
    /\ reauth' = "none"
    /\ data' = EmptyMap
    /\ IF is_token_expired
       THEN /\ authenticate_send(<<>>)
            /\ pc' = "cycle_auth"
            /\ UNCHANGED <<call, cur>>
       ELSE /\ reqLog' = <<>>
            /\ auth' = auth
            /\ CycleGoto(1)
    /\ timed_out' = FALSE
    /\ UNCHANGED <<sensorVars, cfgVars, registered,
                   apiVars, envVars, topoVars, coordVars, ret, faults, resp, lastAuth>>

\* await api.authenticate() of the cycle has returned: its result is not looked at
CycleAuthDone ==
    /\ pc = "cycle_auth"
    /\ auth \in {"true", "false", "raise"}
    /\ auth' = "none"
    /\ reauth' = auth
    /\ resp' = NoResp
    /\ IF auth = "raise" THEN CycleRaises ELSE CycleGoto(1)
    /\ UNCHANGED <<sensorVars, cfgVars, registered, timed_out,
                   apiVars, envVars, topoVars, data, coordVars, ret, cycle, faults,
                   reqLog, raised, lastAuth>>

\* a fetch has returned: its payload is stored and the next fetch starts
CycleFetchDone ==
    /\ pc = "cycle_fetch"
    /\ call.at = "done"
    /\ resp' = NoResp
    /\ ret' = NoRet
    /\ IF ret.kind = "raise"
       THEN fetch_raised
       ELSE /\ data' = (call.id :> [real_time_data |-> ret.val]) @@ data
            /\ coordData' = snapshot_in_cycle(data')
            /\ CycleGoto(cur + 1)
    /\ UNCHANGED <<sensorVars, cfgVars, registered, timed_out,
                   apiVars, envVars, topoVars, last_update_success, auth, cycle, faults,
                   reqLog, raised, reauth, lastAuth>>

\* async_timeout.timeout(30) cancels the cycle at the network call it is suspended on
Timeout ==
    /\ pc \in {"cycle_auth", "cycle_fetch"}
    /\ auth = "wait" \/ call.at \in {"wait", "wait_list"}
    /\ faults < bound.faults
    /\ faults' = faults + 1
    /\ auth' = "none"
    /\ raised' = TRUE
    /\ CycleRaises
    /\ timed_out' = TRUE
    /\ UNCHANGED <<sensorVars, cfgVars, registered,
                   apiVars, envVars, topoVars, data, coordVars, ret, cycle, reqLog,
                   reauth, resp, lastAuth>>

\* ------------------------------------------------ DataUpdateCoordinator
\* the update method returned: self.data = result, last_update_success = True;
\* after the first refresh async_setup_entry stores the entry in hass.data, forwards
\* it to the platforms and returns True
CyclePublish ==
    /\ pc = "cycle_returned"
    /\ coordData' = [none |-> FALSE, map |-> data]
    /\ last_update_success' = TRUE
    /\ data' = EmptyMap
    /\ pc' = "idle"
    /\ registered' = TRUE
    /\ UNCHANGED <<sensorVars, cfgVars, timed_out,
                   apiVars, envVars, topoVars, cur, call, auth, ret, cycle, faults,
                   reqLog, raised, reauth, resp, lastAuth>>

\* the update method raised UpdateFailed: data is kept, last_update_success = False;
\* the first refresh of setup then raises ConfigEntryNotReady
CycleFail ==
    /\ pc = "cycle_raised"
    /\ last_update_success' = FALSE
    /\ coordData' = coordData
    /\ data' = EmptyMap
    /\ pc' = IF cycle = 1 THEN "setup_failed" ELSE "idle"
    /\ UNCHANGED <<sensorVars, cfgVars, registered, timed_out,
                   apiVars, envVars, topoVars, cur, call, auth, ret, cycle, faults,
                   reqLog, raised, reauth, resp, lastAuth>>

\* ---------------------------------------------------------- the clock
InCycle == pc \in {"cycle_auth", "cycle_fetch", "cycle_returned", "cycle_raised"}

\* a variant of Tick with a background refresh: the session authenticates by
\* itself as soon as the token expires between two cycles
Tick_refreshes(d) ==
    /\ ticks < bound.ticks
    /\ auth = "wait" \/ call.at \in {"wait", "wait_list"} \/ pc \in {"first_refresh", "idle"}
    /\ InCycle => d < CycleTimeout
    /\ now' = now + d
    /\ ticks' = ticks + 1
    /\ IF pc = "idle" /\ auth = "none" /\ now + d >= token_expires_at
       THEN authenticate_send(reqLog)
       ELSE UNCHANGED <<auth, reqLog>>
    /\ UNCHANGED <<sensorVars, cfgVars, registered, timed_out, apiVars, pc, topoVars, cur, data,
                   coordVars, call, ret, account, cycle, faults, bound, raised, reauth,
                   resp, lastAuth>>

\* time passes while the task is suspended on the network or waits for the scheduler
Tick(d) ==
    /\ ticks < bound.ticks
    /\ auth = "wait" \/ call.at \in {"wait", "wait_list"} \/ pc \in {"first_refresh", "idle"}
    /\ InCycle => d < CycleTimeout
    /\ now' = now + d
    /\ ticks' = ticks + 1
    /\ UNCHANGED <<sensorVars, cfgVars, registered, timed_out,
                   apiVars, pc, topoVars, cur, data, coordVars, call, auth, ret, account,
                   cycle, faults, bound, reqLog, raised, reauth, resp, lastAuth>>

\* ------------------------------------------------------------ sensor.py
\* Python values as the coercions see them
PyNone == [type |-> "NoneType"]
PyStr(s) == [type |-> "str", s |-> s]
PyBool(b) == [type |-> "bool", b |-> b]
\* an int has any size: a sign and the magnitude hi * 2^30 + lo
PyInt(neg, hi, lo) == [type |-> "int", neg |-> neg, hi |-> hi, lo |-> lo]
\* a float is nan, inf, -inf or a finite double, sign and magnitude
\* hi * 2^30 + lo + milli / 1000
PyFloat(cls, neg, hi, lo, milli) ==
    [type |-> "float", cls |-> cls, neg |-> neg, hi |-> hi, lo |-> lo, milli |-> milli]
PyList == [type |-> "list"]
PyDict == [type |-> "dict"]

Limb == 2^30
\* the int n and the float n + milli / 1000 for a small n (the sign is that of n)
SmallInt(n) == PyInt(n < 0, 0, IF n < 0 THEN -n ELSE n)
Finite(n, milli) == PyFloat("finite", n < 0, 0, IF n < 0 THEN -n ELSE n, milli)
NaN == PyFloat("nan", FALSE, 0, 0, 0)
Inf == PyFloat("inf", FALSE, 0, 0, 0)
NegInf == PyFloat("-inf", TRUE, 0, 0, 0)

\* an exception a call raises
Raises(exc) == [kind |-> "raise", exc |-> exc]

\* str.strip() on the strings of the model
strip(s) ==
    CASE s \in {" ", "   "} -> ""
      [] s = " 12 " -> "12"
      [] OTHER -> s

\* float(s) for a string: surrounding whitespace is ignored, "nan", "inf" and
\* "-inf" are accepted, a decimal too large for a double gives inf
str_to_float(s) ==
    CASE strip(s) = "22706.0" -> Value(Finite(22706, 0))
      [] strip(s) = "12" -> Value(Finite(12, 0))
      [] strip(s) = "0.5" -> Value(Finite(0, 500))
      [] strip(s) = "-3.7" -> Value(Finite(-3, 700))
      [] strip(s) = "nan" -> Value(NaN)
      [] strip(s) = "inf" -> Value(Inf)
      [] strip(s) = "-inf" -> Value(NegInf)
      [] strip(s) = "1e999" -> Value(Inf)
      [] OTHER -> Raises("ValueError")

\* the distance of neighbouring doubles at magnitude hi * 2^30: a double has 53
\* bits of mantissa
spacing(hi) ==
    IF hi < 2^23 THEN 1
    ELSE CHOOSE k \in {2^j : j \in 1..8} : 2^22 * k <= hi /\ hi < 2^23 * k

\* float(n) for an int: the nearest double, ties to the even mantissa
int_to_float(v) ==
    LET k == spacing(v.hi)
        q == v.lo \div k
        r == v.lo % k
        up == 2 * r > k \/ (2 * r = k /\ q % 2 = 1)
        lo == IF up THEN (q + 1) * k ELSE q * k
    IN IF lo = Limb THEN PyFloat("finite", v.neg, v.hi + 1, 0, 0)
       ELSE PyFloat("finite", v.neg, v.hi, lo, 0)

\* float(value)
py_float(v) ==
    CASE v.type = "str" -> str_to_float(v.s)
      [] v.type = "int" -> Value(int_to_float(v))
      [] v.type = "float" -> Value(v)
      [] v.type = "bool" -> Value(Finite(IF v.b THEN 1 ELSE 0, 0))
      [] OTHER -> Raises("TypeError")

\* int(f) for a float: truncation towards zero; nan and the infinities raise
py_int(f) ==
    CASE f.cls = "nan" -> Raises("ValueError")
      [] f.cls \in {"inf", "-inf"} -> Raises("OverflowError")
      [] OTHER -> Value(PyInt(f.neg /\ (f.hi > 0 \/ f.lo > 0), f.hi, f.lo))

\* except (ValueError, TypeError): return the zero; anything else propagates
except_value_type(o, zero) ==
    IF o.exc \in {"ValueError", "TypeError"} THEN Value(zero) ELSE o

\* the tests both coercions start with: None, "-", "" and whitespace-only strings
is_missing(v) ==
    \/ v.type = "NoneType"
    \/ v.type = "str" /\ v.s \in {"-", ""}
    \/ v.type = "str" /\ strip(v.s) = ""

\* a variant of safe_int_convert that converts with int(value), without float()
safe_int_convert_direct(v) ==
    IF is_missing(v) THEN Value(SmallInt(0))
    ELSE IF v.type = "bool" THEN Value(SmallInt(IF v.b THEN 1 ELSE 0))
    ELSE IF v.type = "int" THEN Value(v)
    ELSE IF v.type = "float" THEN except_value_type(py_int(v), SmallInt(0))
    ELSE IF v.type = "str" /\ strip(v.s) = "12" THEN Value(SmallInt(12))
    ELSE Value(SmallInt(0))

\* safe_int_convert(value)
safe_int_convert(v) ==
    IF is_missing(v) THEN Value(SmallInt(0))
    ELSE IF v.type = "bool" THEN Value(SmallInt(IF v.b THEN 1 ELSE 0))
    ELSE LET f == py_float(v)
         IN IF f.kind = "raise" THEN except_value_type(f, SmallInt(0))
            ELSE LET i == py_int(f.val)
                 IN IF i.kind = "raise" THEN except_value_type(i, SmallInt(0)) ELSE i

\* safe_float_convert(value)
safe_float_convert(v) ==
    IF is_missing(v) THEN Value(Finite(0, 0))
    ELSE IF v.type = "bool" THEN Value(Finite(IF v.b THEN 1 ELSE 0, 0))
    ELSE LET f == py_float(v)
         IN IF f.kind = "raise" THEN except_value_type(f, Finite(0, 0)) ELSE f

\* a datetime: the naive reading of the text, or the instant in UTC
DateTime(y, mo, d, h, mi, s) ==
    [year |-> y, month |-> mo, day |-> d, hour |-> h, minute |-> mi, second |-> s]

\* datetime.strptime(s, "%Y-%m-%d %H:%M:%S") on the strings of the model: the
\* fields need not be zero-padded, the day must exist in the month, and nothing
\* may follow the seconds
strptime(v) ==
    IF v.type # "str" THEN Raises("TypeError")
    ELSE CASE v.s = "2024-03-01 12:00:00" -> Value(DateTime(2024, 3, 1, 12, 0, 0))
           [] v.s = "2024-03-01 00:30:00" -> Value(DateTime(2024, 3, 1, 0, 30, 0))
           [] v.s = "2024-01-01 00:00:00" -> Value(DateTime(2024, 1, 1, 0, 0, 0))
           [] v.s = "2023-12-31 23:30:00" -> Value(DateTime(2023, 12, 31, 23, 30, 0))
           [] v.s = "2024-3-1 1:2:3" -> Value(DateTime(2024, 3, 1, 1, 2, 3))
           [] v.s = "0001-01-01 00:00:00" -> Value(DateTime(1, 1, 1, 0, 0, 0))
           [] v.s = "9999-12-31 23:59:59" -> Value(DateTime(9999, 12, 31, 23, 59, 59))
           [] OTHER -> Raises("ValueError")

\* the proleptic Gregorian calendar of datetime
Years == 1..9999
is_leap(y) == y % 4 = 0 /\ (y % 100 # 0 \/ y % 400 = 0)
days_before_year(y) == (y - 1) * 365 + (y - 1) \div 4 - (y - 1) \div 100 + (y - 1) \div 400
days_in_month(y, m) ==
    IF m = 2 THEN (IF is_leap(y) THEN 29 ELSE 28)
    ELSE IF m \in {4, 6, 9, 11} THEN 30 ELSE 31
RECURSIVE days_before_month(_, _)
days_before_month(y, m) ==
    IF m = 1 THEN 0 ELSE days_before_month(y, m - 1) + days_in_month(y, m - 1)
ymd2ord(y, m, d) == days_before_year(y) + days_before_month(y, m) + d
maxordinal == ymd2ord(9999, 12, 31)

\* the date of an ordinal that lies within a year of y
ord2ymd(n, y) ==
    CHOOSE t \in ((({y - 1, y, y + 1}) \cap Years) \X (1..12)) \X (1..31) :
        /\ t[2] <= days_in_month(t[1][1], t[1][2])
        /\ ymd2ord(t[1][1], t[1][2], t[2]) = n

\* naive_dt.replace(tzinfo=offset hours).astimezone(UTC): the offset is taken
\* off, and a date outside the years 1..9999 raises OverflowError
astimezone_utc(dt, offset) ==
    LET secs == dt.hour * 3600 + dt.minute * 60 + dt.second - offset * 3600
        shift == IF secs < 0 THEN -1 ELSE IF secs >= 86400 THEN 1 ELSE 0
        n == ymd2ord(dt.year, dt.month, dt.day) + shift
        sod == secs - shift * 86400
    IN IF n < 1 \/ n > maxordinal THEN Raises("OverflowError")
       ELSE LET t == ord2ymd(n, dt.year)
            IN Value(DateTime(t[1][1], t[1][2], t[2],
                              sod \div 3600, (sod % 3600) \div 60, sod % 60))

\* "if not timestamp_str": None, the empty string and zero
is_falsy(v) ==
    \/ v.type = "NoneType"
    \/ v.type = "str" /\ v.s = ""
    \/ v.type = "int" /\ v.hi = 0 /\ v.lo = 0

\* parse_timestamp(timestamp_str) on a host whose time zone is offset hours
\* ahead of UTC
parse_timestamp(v, offset) ==
    IF is_falsy(v) THEN Value(PyNone)
    ELSE LET naive_dt == strptime(v)
         IN IF naive_dt.kind = "raise" THEN except_value_type(naive_dt, PyNone)
            ELSE LET utc == astimezone_utc(naive_dt.val, offset)
                 IN IF utc.kind = "raise" THEN except_value_type(utc, PyNone) ELSE utc

\* a field that no entity has read yet
NotRead == [kind |-> "not_read"]

\* the integration without an entity reading a field
SensorIdle ==
    /\ value = PyNone
    /\ timestamp_str = PyNone
    /\ time_zone = 0
    /\ as_int = NotRead
    /\ as_float = NotRead
    /\ as_utc = NotRead

\* 2^53 and its neighbours: the ints from which doubles stop being exact
TwoTo53 == PyInt(FALSE, 2^23, 0)
BigInts ==
    { PyInt(neg, 2^23, lo) : neg \in BOOLEAN, lo \in 0..4 }
        \cup { PyInt(neg, 2^23 - 1, Limb - 1) : neg \in BOOLEAN }

\* the raw values a payload field can hold
FieldValues ==
    { PyNone, PyBool(TRUE), PyBool(FALSE), PyList, PyDict, NaN, Inf, NegInf,
      Finite(3, 900), Finite(-3, 700), Finite(0, 0) }
        \cup { PyStr(s) : s \in {"", " ", "   ", "-", "22706.0", "12", " 12 ", "0.5",
                                  "-3.7", "nan", "inf", "-inf", "1e999", "abc", "12 kW"} }
        \cup { SmallInt(n) : n \in {-7, 0, 1, 22706} }
        \cup BigInts

\* the raw values of a time field
TimeValues ==
    { PyNone, SmallInt(0), SmallInt(5), PyList }
        \cup { PyStr(s) : s \in {"", "2024-03-01 12:00:00", "2024-03-01 00:30:00",
                                  "2024-01-01 00:00:00", "2023-12-31 23:30:00",
                                  "2024-3-1 1:2:3", "0001-01-01 00:00:00",
                                  "9999-12-31 23:59:59", "2024-02-30 12:00:00",
                                  "2024-03-01T12:00:00", "2024-03-01 12:00:00 ",
                                  "2024-03-01", "garbage"} }

\* the host's time zone, in hours ahead of UTC
TimeZones == {-5, 0, 1}

\* an entity's value_fn coerces the integer field it reads
ReadInt ==
    /\ as_int = NotRead
    /\ as_int' = safe_int_convert(value)
    /\ UNCHANGED <<value, as_float, timestamp_str, time_zone, as_utc>>
    /\ UNCHANGED <<cfgVars, apiVars, topoVars, coordVars, envVars, pc, cur, data, call,
                   auth, ret, cycle, faults, reqLog, raised, reauth, resp, lastAuth,
                   registered, timed_out>>

\* an entity's value_fn coerces the decimal field it reads
ReadFloat ==
    /\ as_float = NotRead
    /\ as_float' = safe_float_convert(value)
    /\ UNCHANGED <<value, as_int, timestamp_str, time_zone, as_utc>>
    /\ UNCHANGED <<cfgVars, apiVars, topoVars, coordVars, envVars, pc, cur, data, call,
                   auth, ret, cycle, faults, reqLog, raised, reauth, resp, lastAuth,
                   registered, timed_out>>

\* an entity's value_fn parses the time field it reads
ReadTimestamp ==
    /\ as_utc = NotRead
    /\ as_utc' = parse_timestamp(timestamp_str, time_zone)
    /\ UNCHANGED <<value, as_int, as_float, timestamp_str, time_zone>>
    /\ UNCHANGED <<cfgVars, apiVars, topoVars, coordVars, envVars, pc, cur, data, call,
                   auth, ret, cycle, faults, reqLog, raised, reauth, resp, lastAuth,
                   registered, timed_out>>

\* coordinator.data.get(id, {}).get("real_time_data", {})
real_time_data(id) ==
    IF id \in DOMAIN coordData.map THEN coordData.map[id].real_time_data ELSE EmptyPayload

\* native_value of the entity of a station or device whose value_fn reads the field
\* gen of the payload: None while coordinator.data is None or the field is missing
native_value(id) ==
    IF coordData.none THEN Value(PyNone)
    ELSE IF "gen" \in DOMAIN real_time_data(id) THEN Value(real_time_data(id).gen)
    ELSE Value(PyNone)

\* a variant of available that looks at the snapshot only: the entity is available
\* as long as the snapshot has its entry
available_from_snapshot(id) ==
    IF coordData.none THEN Raises("AttributeError")
    ELSE Value(id \in DOMAIN coordData.map)

\* available of the entity of a station or device: no description sets available_fn
available(id) ==
    IF ~last_update_success THEN Value(FALSE)
    ELSE IF coordData.none THEN Raises("AttributeError")
    ELSE Value(TRUE)

\* ------------------------------------------------------ specification
InitIntegration(accounts, logins, b) ==
    /\ bound = b
    /\ \E l \in logins : username = l.user_name /\ password = l.password
    /\ registered = FALSE
    /\ timed_out = FALSE
    /\ token = None
    /\ token_expires_at = 0
    /\ now = 1
    /\ pc = "init"
    /\ stations = <<>>
    /\ dtus = EmptyMap
    /\ microinverters = EmptyMap
    /\ cur = 0
    /\ data = EmptyMap
    /\ coordData = NoSnapshot
    /\ last_update_success = TRUE
    /\ call = NoCall
    /\ auth = "none"
    /\ ret = NoRet
    /\ account \in accounts
    /\ cycle = 0
    /\ ticks = 0
    /\ faults = 0
    /\ reqLog = <<>>
    /\ raised = FALSE
    /\ reauth = "none"
    /\ resp = NoResp
    /\ lastAuth = NoAuthYet

InitWith(accounts, logins, b) == InitIntegration(accounts, logins, b) /\ SensorIdle

Bounds(c, t, f) == [cycles |-> c, ticks |-> t, faults |-> f]

Init == InitWith(SmallAccounts, {Login("user", "secret")}, Bounds(MaxCycles, MaxTicks, MaxFaults))

Next ==
    \/ SetupStart
    \/ SetupAuthDone
    \/ SetupStationsDone
    \/ SetupDtusDone
    \/ SetupMicrosDone
    \/ \E r \in AuthResponses : AuthenticateResponse(r)
    \/ ApiEntry
    \/ ApiGuardDone
    \/ \E r \in Responses(call) : ApiResponse(r)
    \/ \E r \in DtuListResponses(call) : DtuListResponse(r)
    \/ CycleStart
    \/ CycleAuthDone
    \/ CycleFetchDone
    \/ Timeout
    \/ CyclePublish
    \/ CycleFail
    \/ \E d \in TickSizes : Tick(d)

Spec == Init /\ [][Next]_vars

\* the fleet of the scenario: 2 sites, each with 1 concentrator and 2 micro-devices
InitFleet == InitWith({FleetAccount}, {Login("user", "secret")}, Bounds(FleetCycles, FleetTicks, FleetFaults))

SpecFleet == InitFleet /\ [][Next]_vars

\* one site with two concentrators, and either of two passwords
InitTwoDtus ==
    InitWith({TwoDtuAccount}, {Login("user", "secret"), Login("user", "hunter2")},
             Bounds(MaxCycles, MaxTicks, MaxFaults))

SpecTwoDtus == InitTwoDtus /\ [][Next]_vars

\* the steps the event loop runs as soon as the task is ready: the code between
\* two awaits of a cycle, and the coordinator taking the outcome of the update
CycleStep ==
    \/ ApiEntry
    \/ ApiGuardDone
    \/ CycleAuthDone
    \/ CycleFetchDone
    \/ CyclePublish
    \/ CycleFail

\* a network call the task is suspended on returns, fails, or is cut off by the
\* timeout of the cycle
NetworkStep ==
    \/ \E r \in AuthResponses : AuthenticateResponse(r)
    \/ \E r \in Responses(call) : ApiResponse(r)
    \/ \E r \in DtuListResponses(call) : DtuListResponse(r)
    \/ Timeout

\* the integration on an event loop that runs every ready task and on a network
\* whose calls all come to an end
InitLive ==
    InitWith(SmallAccounts, {Login("user", "secret")}, Bounds(LiveCycles, LiveTicks, LiveFaults))

SpecLive == InitLive /\ [][Next]_vars /\ WF_vars(CycleStep) /\ WF_vars(NetworkStep)

\* enough cycles for one to fail after the first refresh and a later one to succeed
InitRecovery ==
    InitWith(SmallAccounts, {Login("user", "secret")},
             Bounds(RecoveryCycles, RecoveryTicks, RecoveryFaults))

SpecRecovery == InitRecovery /\ [][Next]_vars

\* ------------------------------------------------------------ claims
\* the ids of the discovered topology
StationIds == {stations[i] : i \in 1..Len(stations)}
DeviceIds(m) == UNION {{m[s][i] : i \in 1..Len(m[s])} : s \in DOMAIN m}
TopologyIds == StationIds \cup DeviceIds(dtus) \cup DeviceIds(microinverters)

\* the refresh cycle a snapshot entry was fetched in, 0 for an empty payload
GenOf(e) == IF "gen" \in DOMAIN e.real_time_data THEN e.real_time_data.gen ELSE 0

\* C1: the published snapshot changes only when a refresh cycle that raised no error
\* returns; a cycle in which an error was raised (by authenticate, by a fetch, by
\* the timeout) ends with the snapshot it started with and is reported as failed.
C1_FailedCycleKeepsSnapshot ==
    [][ /\ coordData' # coordData => pc = "cycle_returned" /\ ~raised
        /\ (InCycle /\ ~InCycle' /\ raised) =>
               coordData' = coordData /\ last_update_success' = FALSE ]_vars

\* C1 witness: a scheduled cycle has failed and the earlier snapshot is still there
C1_Witness ==
    pc = "idle" /\ raised /\ ~last_update_success /\ ~coordData.none /\ cycle = 2

\* C2: when the token is expired at the start of a cycle and the cycle's
\* authenticate() returns false or raises, no telemetry request is issued in that
\* cycle, the cycle does not return a snapshot and it is reported as failed.
C2_ReauthFailureAbortsCycle ==
    reauth \in {"false", "raise"} =>
        /\ \A i \in 1..Len(reqLog) : reqLog[i].req = "auth"
        /\ pc # "cycle_returned"
        /\ pc = "idle" => ~last_update_success

\* C3: a reader never sees a partially built snapshot or one that mixes two cycles:
\* the published mapping has an entry for every entity, all of one cycle, and while
\* a cycle is in flight none of its entries is visible.
C3_SnapshotNeverTorn ==
    ~coordData.none =>
        /\ DOMAIN coordData.map = TopologyIds
        /\ \E g \in 1..cycle :
              /\ \A k \in DOMAIN coordData.map : GenOf(coordData.map[k]) \in {0, g}
              /\ InCycle => g < cycle

\* C3 witness: the second cycle is suspended on a network call with a part of its
\* data collected while the snapshot of the first cycle is published
C3_Witness ==
    /\ pc = "cycle_fetch"
    /\ call.at = "wait"
    /\ cycle = 2
    /\ DOMAIN data # {}
    /\ ~coordData.none

\* C4: after the fetch of one micro-device has failed with a transport
\* failure the cycle goes on with the sibling fetches (or, after the last one,
\* returns the snapshot with the other entities).
C4_FailureIsolation ==
    [][ ( /\ pc = "cycle_fetch"
          /\ call.at = "done"
          /\ call.op = "get_real_time_data_microinverter"
          /\ ret.kind = "raise"
          /\ resp.kind = "transport" )
        => pc' \in {"cycle_fetch", "cycle_returned"} ]_vars

\* C4 witness: a micro-device fetch has failed with a transport failure after other
\* entities were fetched and before the last entity of the cycle
C4_Witness ==
    /\ pc = "cycle_fetch"
    /\ call.at = "done"
    /\ call.op = "get_real_time_data_microinverter"
    /\ ret.kind = "raise"
    /\ resp.kind = "transport"
    /\ DOMAIN data # {}
    /\ cur < Len(VisitOrder)

IsFetchReq(e) == e.req \in FetchOps
\* p is what the upstream holds for entity id in the current cycle (or is empty)
PayloadOf(p, id) ==
    /\ "id" \in DOMAIN p => p.id = id /\ p.gen = cycle
    /\ "warn_data" \in DOMAIN p => p.warn_data = DtuEntry(id).warn_data
\* the sum of the lengths of the device lists of a station -> devices map
RECURSIVE CountDevices(_, _)
CountDevices(m, k) ==
    IF k > Len(stations) THEN 0 ELSE Len(m[stations[k]]) + CountDevices(m, k + 1)

\* C5: a cycle that returns has performed exactly one fetch operation per site, per
\* concentrator and per micro-device, and the key set of its snapshot is the union
\* of their ids, each mapped to {real_time_data: the payload of that entity}; for
\* the fleet of 2 sites with 1 concentrator and 2 micro-devices each that is 8
\* fetch operations and 8 keys.
C5_OneFetchPerEntity ==
    LET ops == SelectSeq(reqLog, IsFetchReq)
        full == /\ pc = "cycle_returned"
                /\ Len(stations) = 2
                /\ CountDevices(dtus, 1) = 2
                /\ CountDevices(microinverters, 1) = 4
    IN /\ pc = "cycle_returned" =>
            /\ Len(ops) = Len(stations) + CountDevices(dtus, 1)
                              + CountDevices(microinverters, 1)
            /\ \A id \in TopologyIds :
                  Cardinality({i \in 1..Len(ops) : ops[i].id = id}) = 1
            /\ DOMAIN data = TopologyIds
            /\ \A id \in DOMAIN data :
                  /\ DOMAIN data[id] = {"real_time_data"}
                  /\ PayloadOf(data[id].real_time_data, id)
       /\ full => Len(ops) = 8 /\ Cardinality(DOMAIN data) = 8
       /\ (pc = "idle" /\ last_update_success /\ ~coordData.none) =>
              DOMAIN coordData.map = TopologyIds

\* C5 witness: the cycle over the full fleet returns with its 8 entries
C5_Witness ==
    /\ pc = "cycle_returned"
    /\ Cardinality(DOMAIN data) = 8
    /\ Len(SelectSeq(reqLog, IsFetchReq)) = 8
    /\ \A id \in DOMAIN data : GenOf(data[id]) = cycle

\* C6: a listing or fetch operation that was called while is_token_expired() was
\* true has called authenticate() before its data request is in flight.
C6_ExpiredTokenReauthenticated ==
    call.at \in {"wait", "wait_list"} => (call.expired => call.guarded)

\* C7: a null token is always treated as expired.
C7_NullTokenIsExpired ==
    token = None => is_token_expired

\* C8: after a successful authenticate() at time T the stored token is the token of
\* the response, the expiry is T + 7200, and is_token_expired() is true exactly from
\* T + 7200 on.
C8_ExpiryWindow ==
    lastAuth.at >= 0 =>
        /\ token = lastAuth.tok
        /\ token_expires_at = lastAuth.at + 7200
        /\ is_token_expired <=> now >= lastAuth.at + 7200
        /\ now < lastAuth.at + 7200 => ~is_token_expired

\* C8 witness: exactly T + 7200, with the token of the authentication still stored
C8_Witness ==
    /\ lastAuth.at >= 0
    /\ token # None
    /\ now = lastAuth.at + 7200
    /\ is_token_expired

\* C9: token and expiry change only in the step in which an authenticate() call
\* returns true; a call that returns false or raises leaves both as they were.
C9_TokenFrame ==
    [][ /\ (token' # token \/ token_expires_at' # token_expires_at) =>
              (auth = "wait" /\ auth' = "true")
        /\ (auth = "wait" /\ auth' \in {"false", "raise"}) =>
              (token' = token /\ token_expires_at' = token_expires_at) ]_vars

\* C9 witness: authenticate() has just failed while a token of an earlier
\* authentication is stored
C9_Witness ==
    /\ auth \in {"false", "raise"}
    /\ token # None
    /\ token = lastAuth.tok
    /\ call.at = "guard_auth" \/ pc = "cycle_auth"

\* C10: authenticate() returns false, without raising, for a well-formed response
\* whose envelope is not (status "0" and message "success"), and raises, returning
\* neither true nor false, for a transport failure or a body that is not JSON.
C10_AuthFailureKinds ==
    auth \in {"true", "false", "raise"} =>
        /\ (resp.kind = "json" /\ ~(resp.status = "0" /\ resp.message = "success")) =>
              auth = "false"
        /\ resp.kind \in {"transport", "non_json"} => auth = "raise"
        /\ auth = "true" => resp.kind = "json" /\ resp.status = "0" /\ resp.message = "success"

\* C10 witness: the body of the authentication response was not JSON
C10_Witness ==
    /\ auth = "raise"
    /\ resp.kind = "non_json"

\* the operations with one data request
OneRequestOps ==
    ListingOps \cup {"get_real_time_data_station", "get_real_time_data_microinverter"}

\* C11: a listing operation and the site and micro-device fetches answer a
\* well-formed response with a non-success envelope by an empty result (empty
\* collection / empty payload) and no error, and a transport failure or a body that
\* is not JSON by an error and no result.
C11_RejectedIsEmptyFailureRaises ==
    (call.at = "done" /\ call.op \in OneRequestOps /\ resp.kind # "none") =>
        /\ (resp.kind = "json" /\ ~(resp.status = "0" /\ resp.message = "success")) =>
              /\ ret.kind = "value"
              /\ IF call.op \in ListingOps THEN Len(ret.val) = 0
                 ELSE DOMAIN ret.val = {}
        /\ resp.kind \in {"transport", "non_json"} =>
              /\ ret.kind = "raise"
              /\ raised

\* C11 witness: the fetch of a micro-device was rejected by the upstream and
\* returned the empty payload
C11_Witness ==
    /\ call.at = "done"
    /\ call.op = "get_real_time_data_microinverter"
    /\ resp.kind = "json"
    /\ resp.status = "1"
    /\ resp.shape = "full"
    /\ ret = Value(EmptyPayload)

\* the request the last entry of the history records, "" when there is none
LastReq == IF Len(reqLog) = 0 THEN "" ELSE reqLog[Len(reqLog)].req

\* C12: every operation takes a response as successful only if status is "0" and
\* message is "success"; status "0" with another message, or message "success" with
\* another status, is a rejection: authenticate() returns false and stores nothing
\* of it, a listing or fetch returns the empty result, and the concentrator fetch
\* returns what it had before that response.
C12_SuccessNeedsStatusAndMessage ==
    LET ok == resp.kind = "json" /\ resp.status = "0" /\ resp.message = "success"
        mixed == resp.kind = "json" /\ ((resp.status = "0") # (resp.message = "success"))
        done == call.at = "done" /\ resp.kind # "none"
    IN /\ auth = "true" => ok
       /\ (auth \in {"false", "raise"} /\ mixed) =>
              /\ auth = "false"
              /\ resp.shape = "full" => token # resp.body
       /\ call.at = "wait_list" => ok
       /\ (done /\ call.op \in OneRequestOps) =>
              /\ mixed => ret.kind = "value"
              /\ (ret.kind = "value" /\ ~ok) =>
                     IF call.op \in ListingOps THEN Len(ret.val) = 0
                     ELSE DOMAIN ret.val = {}
       /\ (done /\ call.op = "get_real_time_data_dtu") =>
              /\ mixed => ret.kind = "value"
              /\ (ret.kind = "value" /\ ~ok) =>
                     IF LastReq = "dtu_list" THEN ret.val = call.acc
                     ELSE DOMAIN ret.val = {}

\* C12 witness: the detail request of a concentrator was answered with message
\* "success" and status "1", with data, and the fetch returned the empty payload
C12_Witness ==
    /\ call.at = "done"
    /\ call.op = "get_real_time_data_dtu"
    /\ LastReq = "get_real_time_data_dtu"
    /\ resp.kind = "json"
    /\ resp.status = "1"
    /\ resp.message = "success"
    /\ resp.shape = "full"
    /\ ret = Value(EmptyPayload)

C14_DetailBeforeListing ==
    [][ LET dtu == call.op = "get_real_time_data_dtu"
            answered == dtu /\ call.at = "wait" /\ call'.at \in {"done", "wait_list"}
        IN /\ (reqLog' # reqLog /\ LastReq' = "dtu_list") =>
                  /\ answered
                  /\ LastReq = "get_real_time_data_dtu"
                  /\ reqLog[Len(reqLog)].id = call.id
                  /\ resp'.kind = "json" /\ resp'.status = "0" /\ resp'.message = "success"
           /\ (answered /\ resp'.kind = "json"
                        /\ ~(resp'.status = "0" /\ resp'.message = "success")) =>
                  /\ call'.at = "done"
                  /\ ret' = Value(EmptyPayload)
                  /\ reqLog' = reqLog
           /\ (answered /\ resp'.kind \in {"transport", "non_json"}) =>
                  /\ call'.at = "done"
                  /\ ret' = Raise
                  /\ reqLog' = reqLog ]_vars

\* C14 witness: the detail request of a concentrator was rejected and the
\* operation is over without a listing request
C14_Witness ==
    /\ call.at = "done"
    /\ call.op = "get_real_time_data_dtu"
    /\ LastReq = "get_real_time_data_dtu"
    /\ resp.kind = "json"
    /\ resp.status = "1"
    /\ resp.message = "error"
    /\ ret = Value(EmptyPayload)

IsAuthReq(e) == e.req = "auth"

\* C15: within one refresh cycle at most one authentication request is sent, and
\* an authentication request of a cycle is the one of the expiry check at its
\* start, sent because the token was expired then.
C15_OneAuthPerCycle ==
    /\ [](InCycle => Len(SelectSeq(reqLog, IsAuthReq)) <= 1)
    /\ [][ (InCycle' /\ reqLog' # reqLog /\ LastReq' = "auth") =>
               (pc \in {"first_refresh", "idle"} /\ is_token_expired) ]_vars

\* C16: when the timeout of a refresh cycle fires while the cycle is suspended on
\* a network call, the cycle ends as a failure: no further request of that cycle is
\* sent, the cycle never returns its data, the entries it had fetched are dropped,
\* the published snapshot stays as it was and the cycle is reported as failed.
C16_TimeoutAbortsCycle ==
    [][ /\ (~timed_out /\ timed_out') =>
              /\ pc \in {"cycle_auth", "cycle_fetch"}
              /\ auth = "wait" \/ call.at \in {"wait", "wait_list"}
              /\ pc' = "cycle_raised"
              /\ call'.at = "none"
              /\ auth' = "none"
              /\ reqLog' = reqLog
              /\ coordData' = coordData
        /\ (timed_out /\ timed_out') =>
              /\ pc \in {"cycle_raised", "idle", "setup_failed"}
              /\ pc' \in {"idle", "setup_failed"}
              /\ pc = "cycle_raised" => DOMAIN data' = {} /\ last_update_success' = FALSE
              /\ reqLog' = reqLog
              /\ coordData' = coordData ]_vars

\* C16 witness: the timeout has fired in a scheduled cycle that had fetched a part
\* of its entries, while the snapshot of the cycle before is published
C16_Witness ==
    /\ timed_out
    /\ pc = "cycle_raised"
    /\ cycle = 2
    /\ DOMAIN data # {}
    /\ ~coordData.none

\* C17: setup fails outright when the initial authenticate() returns false or
\* raises, when get_stations, get_dtus or get_microinverters raises during
\* discovery, or when get_stations yields no site: async_setup_entry is over
\* without a refresh cycle, without a published snapshot and with nothing
\* registered for the entry, and nothing runs afterwards.
C17_SetupFailsOutright ==
    [][ LET auth_failed == pc = "setup_auth" /\ auth \in {"false", "raise"}
            listed == /\ pc \in {"setup_stations", "setup_dtus", "setup_micros"}
                      /\ call.at = "done"
            listing_failed == listed /\ ret.kind = "raise"
            no_site == listed /\ pc = "setup_stations" /\ ret.kind = "value"
                              /\ Len(ret.val) = 0
        IN /\ (auth_failed \/ listing_failed \/ no_site) =>
                  /\ pc' = "setup_failed"
                  /\ cycle' = 0
                  /\ coordData'.none
                  /\ ~registered'
           /\ pc = "setup_failed" => vars' = vars ]_vars

\* C17 witness: setup has failed on the listing of the devices of a site it had
\* discovered
C17_Witness ==
    /\ pc = "setup_failed"
    /\ cycle = 0
    /\ Len(stations) > 0
    /\ raised
    /\ ~registered

\* C18: the discovered topology is read-only during polling: from the first
\* refresh on no step changes stations, dtus or microinverters, a cycle calls none
\* of the listing operations, and the only listing request it sends is the second
\* request of a concentrator fetch.
C18_TopologyReadOnly ==
    [][ (cycle >= 1 \/ pc = "first_refresh") =>
            /\ stations' = stations
            /\ dtus' = dtus
            /\ microinverters' = microinverters
            /\ call'.op \notin ListingOps
            /\ cycle' >= 1 =>
                   \A i \in 1..Len(reqLog') :
                       /\ reqLog'[i].req \notin ListingOps
                       /\ reqLog'[i].req = "dtu_list" =>
                              i > 1 /\ reqLog'[i - 1].req = "get_real_time_data_dtu" ]_vars

\* C18 witness: a concentrator fetch of a scheduled cycle got a listing that
\* differs from the concentrators discovered at setup
C18_Witness ==
    /\ cycle = 2
    /\ call.at = "done"
    /\ call.op = "get_real_time_data_dtu"
    /\ LastReq = "dtu_list"
    /\ resp.kind = "json" /\ resp.status = "0" /\ resp.message = "success"
    /\ resp.shape = "full"
    /\ Len(resp.body) = 0
    /\ Len(dtus[call.sid]) > 0

\* C19: an authentication request is sent only by an explicit authenticate() call:
\* the one of setup, the one of the expiry check at the start of a cycle, or the one
\* of the guard of a listing or fetch operation that finds no token; while the
\* orchestrator waits for the scheduler nothing is sent and the token and its
\* expiry stay as they are, so that an expired token stays expired.
C19_NoBackgroundRefresh ==
    [][ /\ (auth # "wait" /\ auth' = "wait") =>
              /\ LastReq' = "auth"
              /\ \/ pc = "init" /\ pc' = "setup_auth"
                 \/ pc \in {"first_refresh", "idle"} /\ pc' = "cycle_auth" /\ is_token_expired
                 \/ call.at = "entry" /\ call'.at = "guard_auth" /\ token = None
        /\ (Len(reqLog') > 0 /\ reqLog' # reqLog /\ LastReq' = "auth") =>
              (auth # "wait" /\ auth' = "wait")
        /\ (pc \in {"first_refresh", "idle"} /\ pc' = pc) =>
              /\ auth = "none" /\ auth' = "none"
              /\ reqLog' = reqLog
              /\ token' = token
              /\ token_expires_at' = token_expires_at
              /\ is_token_expired => is_token_expired' ]_vars

\* C19 witness: between two cycles the clock has passed the expiry of the stored
\* token and no authentication is in flight
C19_Witness ==
    /\ pc = "idle"
    /\ token # None
    /\ lastAuth.tok = token
    /\ now >= lastAuth.at + token_valid_time
    /\ is_token_expired
    /\ auth = "none"
    /\ LastReq # "auth"

\* C20: the body of the authentication request is the username and the MD5 hex
\* digest of the password, no request carries the clear-text password, and every
\* data request carries the stored token as its Authorization header value, as
\* it is and without a prefix.
C20_CredentialsOnTheWire ==
    /\ [](\A i \in 1..Len(reqLog) :
             LET e == reqLog[i]
             IN IF e.req = "auth"
                THEN /\ DOMAIN e.headers = {}
                     /\ DOMAIN e.json = {"user_name", "password"}
                     /\ e.json.user_name = username
                     /\ e.json.password # password
                     /\ e.json.password =
                            (IF password = "secret"
                             THEN "5ebe2294ecd0e0f08eab7690d2a6ee69"
                             ELSE "2ab96390c7dbe3439de74d0c9b0b1767")
                ELSE /\ DOMAIN e.json \subseteq
                            {"sid", "id", "page_size", "page_num", "show_warn"}
                     /\ DOMAIN e.headers = {"Authorization"}
                     /\ e.headers.Authorization.prefix = ""
                     /\ e.headers.Authorization.token \in Tokens \cup {None}
                     /\ e.headers.Authorization.token # password)
    /\ [][ (call'.at \in {"wait", "wait_list"} /\ call'.at # call.at) =>
               /\ LastReq' \notin {"", "auth"}
               /\ reqLog'[Len(reqLog')].headers.Authorization =
                      [prefix |-> "", token |-> token'] ]_vars

\* C20 witness: with the second password, the authentication request and a data
\* request with the token it obtained have been sent
C20_Witness ==
    /\ password = "hunter2"
    /\ Len(reqLog) >= 2
    /\ reqLog[1].req = "auth"
    /\ reqLog[1].json.password = "2ab96390c7dbe3439de74d0c9b0b1767"
    /\ reqLog[2].req = "get_stations"
    /\ reqLog[2].headers.Authorization.token = "tokA"
    /\ token = "tokA"

\* ------------------------------------------------------ the coercions
\* the coercions of sensor.py applied to every raw value of a field
InitSensor ==
    /\ InitIntegration({TwoDtuAccount}, {Login("user", "secret")},
                       Bounds(MaxCycles, MaxTicks, MaxFaults))
    /\ value \in FieldValues
    /\ timestamp_str \in TimeValues
    /\ time_zone \in TimeZones
    /\ as_int = NotRead
    /\ as_float = NotRead
    /\ as_utc = NotRead

NextSensor == ReadInt \/ ReadFloat \/ ReadTimestamp

SpecSensor == InitSensor /\ [][NextSensor]_vars

\* the int lies within the range where every int is a double: |n| <= 2^53
exact_as_double(v) == v.hi < 2^23 \/ (v.hi = 2^23 /\ v.lo = 0)

not_a_finite_number(v) ==
    \/ v.type \in {"list", "dict"}
    \/ v.type = "str" /\ v.s \in {"abc", "12 kW", "nan", "inf", "-inf"}

\* C22: neither coercion raises for any input, and both return zero for every
\* input that is not parseable as a finite number: a non-numeric string, "nan",
\* "inf", "-inf", a list, a mapping
C22_NeverRaisesZeroOnUnparseable ==
    /\ as_int.kind # "raise"
    /\ as_float.kind # "raise"
    /\ (as_int # NotRead /\ not_a_finite_number(value)) => as_int = Value(SmallInt(0))
    /\ (as_float # NotRead /\ not_a_finite_number(value)) => as_float = Value(Finite(0, 0))

\* the strings of the model that are not of the form YYYY-MM-DD HH:MM:SS, or
\* name no day of the calendar
not_in_format(v) ==
    \/ v.type # "str"
    \/ v.s \in {"", "2024-02-30 12:00:00", "2024-03-01T12:00:00",
                 "2024-03-01 12:00:00 ", "2024-03-01", "garbage"}

\* C23: parse_timestamp never raises; it yields no value for null, the empty
\* string and every string that is not of the form YYYY-MM-DD HH:MM:SS, and for a
\* well-formed string the UTC instant of that local time in the host's time zone:
\* "2024-03-01 12:00:00" under UTC+1 is 2024-03-01T11:00:00Z
C23_TimestampNeverRaises ==
    as_utc # NotRead =>
        /\ as_utc.kind # "raise"
        /\ not_in_format(timestamp_str) => as_utc = Value(PyNone)
        /\ (timestamp_str = PyStr("2024-03-01 12:00:00") /\ time_zone = 1)
              => as_utc = Value(DateTime(2024, 3, 1, 11, 0, 0))

\* a request is in flight: the task is suspended on its response
AuthInFlight == auth = "wait"
DataInFlight == call.at \in {"wait", "wait_list"}

\* the fetch operations the topology of setup asks for: site by site in the order
\* of stations, per site the site, its concentrators, its micro-devices
RECURSIVE FetchOrder(_)
FetchOrder(k) ==
    IF k > Len(stations) THEN <<>>
    ELSE LET sid == stations[k]
         IN <<[req |-> "get_real_time_data_station", id |-> sid]>>
            \o [i \in 1..Len(dtus[sid]) |->
                    [req |-> "get_real_time_data_dtu", id |-> dtus[sid][i]]]
            \o [i \in 1..Len(microinverters[sid]) |->
                    [req |-> "get_real_time_data_microinverter", id |-> microinverters[sid][i]]]
            \o FetchOrder(k + 1)

\* C24: within a cycle the requests are issued strictly one after another, never
\* two in flight: a request is sent only when none is waiting for its response, or
\* in the step that receives that response; the fetches follow the fixed order of
\* the stations, and per site the site telemetry comes first, then each
\* concentrator in discovered order, then each micro-device, before the next site.
C24_SequentialFixedOrder ==
    /\ [](~(AuthInFlight /\ DataInFlight))
    /\ [](InCycle =>
            LET ops == SelectSeq(reqLog, IsFetchReq)
            IN /\ Len(ops) <= Len(FetchOrder(1))
               /\ \A i \in 1..Len(ops) :
                     ops[i].req = FetchOrder(1)[i].req /\ ops[i].id = FetchOrder(1)[i].id)
    /\ [][ (InCycle' /\ reqLog' # reqLog /\ Len(reqLog') > 0) =>
               /\ ~AuthInFlight
               /\ DataInFlight => (call.at = "wait" /\ resp' # NoResp /\ LastReq' = "dtu_list") ]_vars

\* C24 witness: a cycle over two sites has sent all its fetches, the last one for
\* the second micro-device of the second site
C24_Witness ==
    /\ pc = "cycle_returned"
    /\ Len(stations) = 2
    /\ Len(SelectSeq(reqLog, IsFetchReq)) = Len(FetchOrder(1))
    /\ LastReq = "get_real_time_data_microinverter"
    /\ reqLog[Len(reqLog)].id = microinverters[stations[2]][2]
    /\ SelectSeq(reqLog, IsFetchReq)[5].req = "get_real_time_data_station"

\* C25: no listing or telemetry request is ever sent with a null Authorization
\* token: an operation that finds no token and whose guard authenticate() is
\* rejected (returns false) does not send its data request.
C25_NoRequestWithoutToken ==
    /\ [](\A i \in 1..Len(reqLog) :
            reqLog[i].req # "auth" => reqLog[i].headers.Authorization.token # None)
    /\ [][ (call.at = "guard_auth" /\ auth = "false") => reqLog' = reqLog ]_vars

Discovered == pc \in {"first_refresh", "idle"} \/ InCycle

\* the ids of a list of devices
IdsOf(list) == {list[i] : i \in 1..Len(list)}

\* C27: once discovery has succeeded, the key sets of the dtus map and of the
\* microinverters map are exactly the discovered site ids; every device fetch of a
\* cycle is made under a site of stations and for a device of that site's list,
\* and a cycle that returns has fetched each discovered device exactly once.
C27_DevicesUnderTheirSite ==
    Discovered =>
        /\ DOMAIN dtus = StationIds
        /\ DOMAIN microinverters = StationIds
        /\ cycle >= 1 =>
              \A i \in 1..Len(reqLog) :
                  /\ reqLog[i].req = "get_real_time_data_dtu" =>
                        /\ reqLog[i].json.sid \in StationIds
                        /\ reqLog[i].id \in IdsOf(dtus[reqLog[i].json.sid])
                  /\ reqLog[i].req = "get_real_time_data_microinverter" =>
                        /\ reqLog[i].json.sid \in StationIds
                        /\ reqLog[i].id \in IdsOf(microinverters[reqLog[i].json.sid])
        /\ pc = "cycle_returned" =>
              \A id \in DeviceIds(dtus) \cup DeviceIds(microinverters) :
                  Cardinality({i \in 1..Len(reqLog) :
                                  IsFetchReq(reqLog[i]) /\ reqLog[i].id = id}) = 1

\* C27 witness: two sites were discovered, the first without any device, and a
\* cycle has fetched the concentrator of the second
C27_Witness ==
    /\ pc = "cycle_returned"
    /\ Len(stations) = 2
    /\ DOMAIN dtus = StationIds
    /\ Len(dtus[stations[1]]) = 0
    /\ Len(dtus[stations[2]]) = 1
    /\ LastReq = "dtu_list"
    /\ reqLog[Len(reqLog)].id = stations[2]

\* the devices the upstream holds for a site that discovery did not find
Undiscovered(sid) ==
    (IdsOf(account.dtus[sid]) \ IdsOf(dtus[sid]))
        \cup (IdsOf(account.micros[sid]) \ IdsOf(microinverters[sid]))

\* setup takes the result of a device listing that was answered with a well-formed
\* non-success envelope
ListingRejected(at) ==
    /\ pc = at
    /\ call.at = "done"
    /\ resp.kind = "json"
    /\ ~(resp.status = "0" /\ resp.message = "success")

\* C28: a device listing of setup that is answered with a well-formed non-success
\* envelope does not end setup: the site gets an empty device collection and setup
\* goes on; afterwards no cycle sends a fetch for a device of the site that was
\* not discovered, and no such device has an entry in the data of a cycle or in
\* the published snapshot.
C28_RejectedListingLeavesSiteEmpty ==
    /\ [][ /\ (ListingRejected("setup_dtus") /\ pc' # pc) =>
                 /\ pc' = "setup_micros"
                 /\ Len(dtus'[stations[cur]]) = 0
           /\ (ListingRejected("setup_micros") /\ pc' # pc) =>
                 /\ pc' \in {"setup_dtus", "first_refresh"}
                 /\ Len(microinverters'[stations[cur]]) = 0 ]_vars
    /\ [](Discovered =>
            \A sid \in StationIds :
                /\ DOMAIN data \cap Undiscovered(sid) = {}
                /\ DOMAIN coordData.map \cap Undiscovered(sid) = {}
                /\ cycle >= 1 =>
                      \A i \in 1..Len(reqLog) : reqLog[i].id \notin Undiscovered(sid))

\* C28 witness: the listing of the micro-devices of a site that has two of them was
\* rejected and get_microinverters has returned an empty collection and no error,
\* after the listing of its concentrators had found one
C28_Witness ==
    /\ ListingRejected("setup_micros")
    /\ ret = Value(<<>>)
    /\ ~raised
    /\ Cardinality(IdsOf(account.micros[stations[cur]])) = 2
    /\ Len(dtus[stations[cur]]) = 1

\* the data requests of the topology: one per site, two per concentrator, one per
\* micro-device
TopologyRequests ==
    Len(stations) + 2 * CountDevices(dtus, 1) + CountDevices(microinverters, 1)

\* the operations of a cycle: one per site, concentrator and micro-device
TopologyOperations ==
    Len(stations) + CountDevices(dtus, 1) + CountDevices(microinverters, 1)

IsDataReq(e) == e.req # "auth"

\* C29: every refresh cycle that starts eventually ends, by returning its snapshot
\* or by reporting failure, when every network call eventually returns, fails or
\* is cut off by the timeout; the data requests of a cycle are at most one per
\* site, two per concentrator and one per micro-device, and its authentication
\* requests at most the one of the expiry check and one per operation.
C29_CycleEndsBoundedRequests ==
    /\ [](InCycle =>
            /\ Len(SelectSeq(reqLog, IsDataReq)) <= TopologyRequests
            /\ Len(SelectSeq(reqLog, IsAuthReq)) <= 1 + TopologyOperations)
    /\ (InCycle ~> ~InCycle)

\* C29 witness: a scheduled cycle has ended after it sent every data request of
\* the topology, two of them for the concentrator, and an authentication request
C29_Witness ==
    /\ pc = "idle"
    /\ cycle = 2
    /\ CountDevices(dtus, 1) = 1
    /\ Len(SelectSeq(reqLog, IsDataReq)) = TopologyRequests
    /\ Len(SelectSeq(reqLog, IsAuthReq)) = 1

\* C30: an entity reports itself unavailable in every state in which the most
\* recent refresh cycle has failed, although the previous snapshot still holds
\* its data; it becomes available again only when a later cycle succeeds; and
\* reading its value while no snapshot has been published raises nothing and
\* yields no value.
C30_UnavailableAfterFailedCycle ==
    /\ [](\A id \in TopologyIds :
            /\ (registered /\ raised /\ ~InCycle) => available(id) = Value(FALSE)
            /\ coordData.none => native_value(id) = Value(PyNone))
    /\ [][ \A id \in TopologyIds :
              (registered /\ available(id) = Value(FALSE) /\ available(id)' = Value(TRUE)) =>
                  /\ pc = "cycle_returned"
                  /\ ~raised
                  /\ pc' = "idle"
                  /\ coordData'.map = data ]_vars

\* C30 witness: the second cycle has failed; the entity of a micro-device is
\* unavailable while its value is still that of the first cycle
C30_Witness ==
    /\ pc = "idle"
    /\ registered
    /\ raised
    /\ cycle = 2
    /\ \E id \in DeviceIds(microinverters) :
          /\ id \in DOMAIN coordData.map
          /\ native_value(id) = Value(1)
          /\ available(id) = Value(FALSE)

====
